---- MODULE Spec2Model ----
(***************************************************************************)
(* Model of src/spectral_factor_polo.py: the function                      *)
(* spectral_factor_polo, executed statement by statement.                  *)
(*                                                                         *)
(* Numbers.  A Python float / numpy float64 is modelled as an exact        *)
(* rational extended with the IEEE-754 specials +inf, -inf and nan         *)
(* (rounding and the sign of zero are not modelled).  Numerators and       *)
(* denominators are arbitrary-precision naturals kept as little-endian     *)
(* sequences of limbs, because the products of the table values exceed     *)
(* the integers TLC can hold.  A numpy array is a tagged sequence of       *)
(* scalars and the arithmetic broadcasts over it.                          *)
(***************************************************************************)
EXTENDS Integers, Sequences, FiniteSets, TLC

(***************************************************************************)
(* Arbitrary-precision naturals.                                           *)
(***************************************************************************)
Base == 100 * 100

RECURSIVE BFrom(_)
BFrom(n) == IF n = 0 THEN <<>> ELSE <<n % Base>> \o BFrom(n \div Base)

RECURSIVE BStrip(_)
BStrip(a) ==
  IF a = <<>> THEN a
  ELSE IF a[Len(a)] = 0 THEN BStrip(SubSeq(a, 1, Len(a) - 1)) ELSE a

BHead(a) == IF a = <<>> THEN 0 ELSE Head(a)
BTail(a) == IF a = <<>> THEN <<>> ELSE Tail(a)

RECURSIVE BAddC(_, _, _)
BAddC(a, b, c) ==
  IF a = <<>> /\ b = <<>> THEN (IF c = 0 THEN <<>> ELSE <<c>>)
  ELSE LET s == BHead(a) + BHead(b) + c
       IN  <<s % Base>> \o BAddC(BTail(a), BTail(b), s \div Base)

BAdd(a, b) == IF a = <<>> THEN b ELSE IF b = <<>> THEN a ELSE BAddC(a, b, 0)

RECURSIVE BSubC(_, _, _)
BSubC(a, b, c) ==
  IF a = <<>> THEN <<>>
  ELSE LET s == Head(a) - BHead(b) - c
       IN  IF s < 0 THEN <<s + Base>> \o BSubC(Tail(a), BTail(b), 1)
           ELSE <<s>> \o BSubC(Tail(a), BTail(b), 0)

\* a - b for a >= b
BSub(a, b) == BStrip(BSubC(a, b, 0))

RECURSIVE BLessFrom(_, _, _)
BLessFrom(a, b, i) ==
  IF i = 0 THEN FALSE
  ELSE IF a[i] # b[i] THEN a[i] < b[i] ELSE BLessFrom(a, b, i - 1)

BLess(a, b) ==
  IF Len(a) # Len(b) THEN Len(a) < Len(b) ELSE BLessFrom(a, b, Len(a))

RECURSIVE BMulS(_, _, _)
BMulS(a, m, c) ==
  IF a = <<>> THEN (IF c = 0 THEN <<>> ELSE <<c>>)
  ELSE LET s == Head(a) * m + c
       IN  <<s % Base>> \o BMulS(Tail(a), m, s \div Base)

RECURSIVE BMul(_, _)
BMul(a, b) ==
  IF a = <<>> \/ b = <<>> THEN <<>>
  ELSE IF b = <<1>> THEN a
  ELSE IF a = <<1>> THEN b
  ELSE IF Len(b) = 1 THEN BMulS(a, b[1], 0)
  ELSE BAdd(BMulS(a, Head(b), 0),
            LET r == BMul(a, Tail(b)) IN IF r = <<>> THEN r ELSE <<0>> \o r)

(***************************************************************************)
(* Floats: [k |-> "fin", neg, n, d] is (-1)^neg * n/d with d > 0 (zero has *)
(* neg = FALSE and d = 1); [k |-> "inf", neg]; [k |-> "nan"];              *)
(* [k |-> "arr", v |-> <<scalars>>] is a numpy array.                      *)
(***************************************************************************)
NaN == [k |-> "nan", neg |-> FALSE, n |-> <<>>, d |-> <<1>>]
Inf(neg) == [k |-> "inf", neg |-> neg, n |-> <<>>, d |-> <<1>>]
Fin(neg, n, d) ==
  IF n = <<>> THEN [k |-> "fin", neg |-> FALSE, n |-> <<>>, d |-> <<1>>]
  ELSE IF Head(n) = 0 /\ Head(d) = 0
       THEN [k |-> "fin", neg |-> neg, n |-> Tail(n), d |-> Tail(d)]
       ELSE [k |-> "fin", neg |-> neg, n |-> n, d |-> d]

RECURSIVE Gcd(_, _)
Gcd(a, b) == IF b = 0 THEN a ELSE Gcd(b, a % b)

Abs(i) == IF i < 0 THEN -i ELSE i

\* the float written n/d, for integers n and d > 0
Q(n, d) ==
  LET g == Gcd(Abs(n), d)
  IN  Fin(n < 0, BFrom(Abs(n) \div g), BFrom(d \div g))

Zero == Q(0, 1)
One == Q(1, 1)

IsZero(x) == x.k = "fin" /\ x.n = <<>>

\* numeric equality of two finite scalars
FinEq(x, y) == x.neg = y.neg /\ BMul(x.n, y.d) = BMul(y.n, x.d)

\* x < y for finite scalars
FinLess(x, y) ==
  IF x.neg /\ ~y.neg THEN TRUE
  ELSE IF ~x.neg /\ y.neg THEN FALSE
  ELSE IF x.neg THEN BLess(BMul(y.n, x.d), BMul(x.n, y.d))
  ELSE BLess(BMul(x.n, y.d), BMul(y.n, x.d))

SAdd(x, y) ==
  IF x.k = "nan" \/ y.k = "nan" THEN NaN
  ELSE IF x.k = "inf" THEN (IF y.k = "inf" /\ y.neg # x.neg THEN NaN ELSE x)
  ELSE IF y.k = "inf" THEN y
  ELSE IF IsZero(x) THEN y
  ELSE IF IsZero(y) THEN x
  ELSE LET a == IF x.d = y.d THEN x.n ELSE BMul(x.n, y.d)
           b == IF x.d = y.d THEN y.n ELSE BMul(y.n, x.d)
           d == IF x.d = y.d THEN x.d ELSE BMul(x.d, y.d)
       IN  IF x.neg = y.neg THEN Fin(x.neg, BAdd(a, b), d)
           ELSE IF BLess(a, b) THEN Fin(y.neg, BSub(b, a), d)
           ELSE Fin(x.neg, BSub(a, b), d)

SMul(x, y) ==
  IF x.k = "nan" \/ y.k = "nan" THEN NaN
  ELSE IF x.k = "inf" \/ y.k = "inf"
       THEN (IF IsZero(x) \/ IsZero(y) THEN NaN ELSE Inf(x.neg # y.neg))
  ELSE IF IsZero(x) \/ IsZero(y) THEN Zero
  ELSE Fin(x.neg # y.neg, BMul(x.n, y.n), BMul(x.d, y.d))

\* IEEE division: never raises
SDiv(x, y) ==
  IF x.k = "nan" \/ y.k = "nan" THEN NaN
  ELSE IF x.k = "inf" THEN (IF y.k = "inf" THEN NaN ELSE Inf(x.neg # y.neg))
  ELSE IF y.k = "inf" THEN Zero
  ELSE IF IsZero(y) THEN (IF IsZero(x) THEN NaN ELSE Inf(x.neg))
  ELSE IF IsZero(x) THEN Zero
  ELSE Fin(x.neg # y.neg, BMul(x.n, y.d), BMul(x.d, y.n))

IsInteger(e) == e.k = "fin" /\ e.d = <<1>> /\ Len(e.n) <= 1
IntOf(e) == IF e.n = <<>> THEN 0 ELSE (IF e.neg THEN -e.n[1] ELSE e.n[1])

RECURSIVE IPow(_, _)
IPow(x, i) == IF i = 0 THEN One ELSE SMul(x, IPow(x, i - 1))

\* the points where x ** e is a rational or a special value
PowExact(x, e) ==
  \/ x.k # "fin"
  \/ IsZero(x) \/ FinEq(x, One) \/ x.neg
  \/ IsInteger(e)

\* x ** e for a finite exponent e, as numpy evaluates it on float64
SPow(x, e) ==
  IF IsZero(e) THEN One
  ELSE IF x.k = "nan" THEN NaN
  ELSE IF x.k = "fin" /\ ~IsZero(x) /\ FinEq(x, One) THEN One
  ELSE IF IsInteger(e)
       THEN (IF IntOf(e) > 0 THEN IPow(x, IntOf(e))
             ELSE SDiv(One, IPow(x, -IntOf(e))))
  ELSE IF x.k = "inf" THEN (IF e.neg THEN Zero ELSE Inf(FALSE))
  ELSE IF IsZero(x) THEN (IF e.neg THEN Inf(FALSE) ELSE Zero)
  ELSE IF x.neg THEN NaN
  ELSE CHOOSE r \in {} : TRUE

IsSquare(m) == \E r \in 0..m : r * r = m
IRoot(m) == CHOOSE r \in 0..m : r * r = m

\* the points where sqrt(x) is a rational or a special value
SqrtExact(x) ==
  \/ x.k # "fin" \/ x.neg
  \/ /\ Len(x.n) <= 1 /\ Len(x.d) <= 1
     /\ IsSquare(IF x.n = <<>> THEN 0 ELSE x.n[1]) /\ IsSquare(x.d[1])

\* np.sqrt on a scalar: nan (with a warning, no exception) below zero
SSqrt(x) ==
  IF x.k = "nan" THEN NaN
  ELSE IF x.k = "inf" THEN (IF x.neg THEN NaN ELSE x)
  ELSE IF IsZero(x) THEN Zero
  ELSE IF x.neg THEN NaN
  ELSE Q(IRoot(x.n[1]), IRoot(x.d[1]))

(***************************************************************************)
(* numpy broadcasting of the scalar operations over arrays.                *)
(***************************************************************************)
IsArr(x) == x.k = "arr"
Arr(s) == [k |-> "arr", v |-> s]

\* the i-th operand of an element-wise operation: a scalar is repeated
At(x, i) == IF IsArr(x) THEN x.v[i] ELSE x

\* the length of the result of an element-wise operation on x and y
BcLen(x, y) == IF IsArr(x) THEN Len(x.v) ELSE Len(y.v)

Add(x, y) ==
  IF IsArr(x) \/ IsArr(y)
  THEN Arr([i \in 1..BcLen(x, y) |-> SAdd(At(x, i), At(y, i))])
  ELSE SAdd(x, y)

Mul(x, y) ==
  IF IsArr(x) \/ IsArr(y)
  THEN Arr([i \in 1..BcLen(x, y) |-> SMul(At(x, i), At(y, i))])
  ELSE SMul(x, y)

Div(x, y) ==
  IF IsArr(x) \/ IsArr(y)
  THEN Arr([i \in 1..BcLen(x, y) |-> SDiv(At(x, i), At(y, i))])
  ELSE SDiv(x, y)

Pow(x, e) ==
  IF IsArr(x) \/ IsArr(e)
  THEN Arr([i \in 1..BcLen(x, e) |-> SPow(At(x, i), At(e, i))])
  ELSE SPow(x, e)

Sqrt(x) ==
  IF IsArr(x) THEN Arr([i \in 1..Len(x.v) |-> SSqrt(x.v[i])]) ELSE SSqrt(x)

\* numeric equality of two scalars (nan is taken equal to nan here: the
\* comparison is of outcomes, not Python's ==)
SEq(x, y) ==
  /\ x.k = y.k
  /\ x.k = "inf" => x.neg = y.neg
  /\ x.k = "fin" => FinEq(x, y)

Eq(x, y) ==
  IF IsArr(x) # IsArr(y) THEN FALSE
  ELSE IF IsArr(x)
       THEN Len(x.v) = Len(y.v) /\ \A i \in 1..Len(x.v) : SEq(x.v[i], y.v[i])
  ELSE SEq(x, y)

(***************************************************************************)
(* The external atmosphere functions (pvlib.atmosphere), called on lines   *)
(* 67-69.  They are black boxes to the function; they are modelled on the  *)
(* arguments where their value is a rational: the airmass as the secant of *)
(* the angle, nan above 90 degrees, and the pressure at sea level and at   *)
(* the altitude (about 5477 m) where it is half of that.                   *)
(***************************************************************************)
get_relative_airmass(zenith) ==
  IF zenith > 90 THEN NaN
  ELSE IF zenith = 60 THEN Q(2, 1)
  ELSE One

StandardPressure == 101325

alt2pres(alt) ==
  IF alt = 0 THEN Q(StandardPressure, 1) ELSE Q(StandardPressure, 2)

get_absolute_airmass(airmass_relative, pres) ==
  Div(Mul(airmass_relative, pres), Q(StandardPressure, 1))

(***************************************************************************)
(* The two coefficient tables, lines 72-86.                                *)
(***************************************************************************)
TableA ==
  ("cdte" :> <<Q(-9, 10000), Q(4680, 100), Q(4920, 100), Q(-87, 100),
               Q(41, 100000), Q(53, 1000)>>) @@
  ("monosi" :> <<Q(27, 10000), Q(1034, 100), Q(948, 100), Q(307, 1000),
                 Q(77, 100000), Q(6, 1000)>>) @@
  ("cigs" :> <<Q(17, 10000), Q(233, 100), Q(130, 100), Q(11, 100),
               Q(98, 100000), Q(-177, 10000)>>) @@
  ("asi" :> <<Q(24, 10000), Q(732, 100), Q(709, 100), Q(-72, 100),
              Q(-13, 10000), Q(89, 1000)>>)

\* table B without its 'asi' row
TableBMissingAsi ==
  ("cigs" :> <<Q(-9, 10000), Q(-3, 10000), One>>) @@
  ("cdte" :> <<Q(21, 10000), Q(-1, 100), Q(101, 100)>>) @@
  ("monosi" :> <<Zero, Q(-3, 1000), One>>)

\* table B with the sign of the first 'cigs' coefficient lost
TableBSignSlip ==
  ("asi" :> <<Q(56, 10000), Q(-20, 1000), Q(1014, 1000)>>) @@
  ("cigs" :> <<Q(9, 10000), Q(-3, 10000), One>>) @@
  ("cdte" :> <<Q(21, 10000), Q(-1, 100), Q(101, 100)>>) @@
  ("monosi" :> <<Zero, Q(-3, 1000), One>>)

TableB ==
  ("asi" :> <<Q(56, 10000), Q(-20, 1000), Q(1014, 1000)>>) @@
  ("cigs" :> <<Q(-9, 10000), Q(-3, 10000), One>>) @@
  ("cdte" :> <<Q(21, 10000), Q(-1, 100), Q(101, 100)>>) @@
  ("monosi" :> <<Zero, Q(-3, 1000), One>>)

\* line 94
NeutralTriple == <<Zero, Zero, One>>

\* the 0.2 of lines 95 and 101
ReferenceAlbedo == Q(2, 10)

(***************************************************************************)
(* Python values of the arguments.                                         *)
(***************************************************************************)
None == [k |-> "none"]
MtNone == "None"

\* a Python tuple of floats, and a numpy array of the same numbers
Tuple(s) == [k |-> "tuple", v |-> s]
NdArray(s) == [k |-> "ndarray", v |-> s]

\* a Python scalar, and a numpy scalar
PyNum(x) == [np |-> FALSE, x |-> x]
NpNum(x) == [np |-> TRUE, x |-> x]

(***************************************************************************)
(* The statements of spectral_factor_polo.                                 *)
(***************************************************************************)
\* line 61
NeitherGiven(mt, co) == mt = MtNone /\ co = None
\* the second check left out
BothGivenNever(mt, co) == FALSE

\* line 63
BothGiven(mt, co) == mt # MtNone /\ co # None

\* the division not broadcast: only the first airmass is used
RamOfFirstElement(am90v, am) ==
  IF IsArr(am) THEN Div(am90v, am.v[1]) ELSE Div(am90v, am)

\* the operands of the division exchanged
RamOfInverted(am90v, am) == Div(am, am90v)

\* line 70
RamOf(am90v, am) == Div(am90v, am)

\* lines 90-91: the two dictionary lookups raise KeyError on a missing key
LookupFails(mt) == mt \notin DOMAIN TableA \/ mt \notin DOMAIN TableB

\* the else branch takes the 'monosi' albedo row and keeps the caller's albedo
ResolveKeepsAlbedo(mt, co, alb) ==
  IF mt # MtNone
  THEN [coeff |-> Tuple(TableA[mt]), c_albedo |-> TableB[mt], albedo |-> alb]
  ELSE [coeff |-> co, c_albedo |-> TableB["monosi"], albedo |-> alb]

\* the table-A row is looked up under a fixed key
ResolveWrongRow(mt, co, alb) ==
  IF mt # MtNone
  THEN [coeff |-> Tuple(TableA["cdte"]), c_albedo |-> TableB[mt],
        albedo |-> alb]
  ELSE [coeff |-> co, c_albedo |-> NeutralTriple, albedo |-> ReferenceAlbedo]

\* lines 89-95: the coefficient sets and the albedo the rest of the body uses
Resolve(mt, co, alb) ==
  IF mt # MtNone
  THEN [coeff |-> Tuple(TableA[mt]), c_albedo |-> TableB[mt], albedo |-> alb]
  ELSE [coeff |-> co, c_albedo |-> NeutralTriple, albedo |-> ReferenceAlbedo]

\* coeff[4]/aod500 on line 98: true division of two Python floats raises
\* ZeroDivisionError on a zero divisor, numpy's returns inf or nan
Line98Raises(cf, aod) == cf.k = "tuple" /\ ~aod.np /\ IsZero(aod.x)

\* line 98
SmmOf(cf, ram, aod, pw) ==
  Add(Add(Add(Mul(cf.v[1], ram),
              Div(cf.v[2], Add(cf.v[3], Pow(ram, cf.v[4])))),
          Div(cf.v[5], aod.x)),
      Mul(cf.v[6], Sqrt(pw)))

\* the linear term of the polynomial dropped
GOfNoLinear(cb, alb) ==
  LET r == Div(alb, ReferenceAlbedo)
  IN  Add(Mul(cb[1], SPow(r, Q(2, 1))), cb[3])

\* line 101
GOf(cb, alb) ==
  LET r == Div(alb, ReferenceAlbedo)
  IN  Add(Add(Mul(cb[1], SPow(r, Q(2, 1))), Mul(cb[2], r)), cb[3])

\* line 104
ReturnOf(gv, smmv) == Mul(gv, smmv)

Raised(e) == [err |-> e, val |-> None]
Returned(v) == [err |-> "none", val |-> v]

\* the whole call, as a function of its arguments
spectral_factor_polo(pw, am, aod, zen, alt, mt, co, alb) ==
  IF NeitherGiven(mt, co) \/ BothGiven(mt, co) THEN Raised("ValueError")
  ELSE IF mt # MtNone /\ LookupFails(mt) THEN Raised("KeyError")
  ELSE LET r == Resolve(mt, co, alb)
           ram == RamOf(get_absolute_airmass(get_relative_airmass(zen),
                                             alt2pres(alt)), am)
       IN  IF Line98Raises(r.coeff, aod) THEN Raised("ZeroDivisionError")
           ELSE Returned(ReturnOf(GOf(r.c_albedo, r.albedo),
                                  SmmOf(r.coeff, ram, aod, pw)))

(***************************************************************************)
(* The calls explored.                                                     *)
(***************************************************************************)
MaxLen == 2

KnownTypes == {"cdte", "monosi", "cigs", "asi"}
ModuleTypeArgs == KnownTypes \cup {MtNone, "unknown"}

UserCoefficients == <<Q(1, 2), Q(3, 1), Q(1, 1), Q(2, 1), Q(1, 10), Q(-1, 4)>>
CoefficientArgs ==
  {None, NdArray(UserCoefficients), Tuple(UserCoefficients)}
    \cup {Tuple(TableA[t]) : t \in KnownTypes}

WaterArgs == {Q(4, 1), Q(-1, 1)}
AirmassScalars == {Q(0, 1), Q(1, 1), Q(2, 1)}
AirmassElements == {Q(0, 1), Q(1, 1)}
AirmassArrays ==
  UNION {{Arr(s) : s \in [1..n -> AirmassElements]} : n \in 1..MaxLen}
AirmassArgs == AirmassScalars \cup AirmassArrays
AodArgs == {PyNum(Zero), NpNum(Zero), PyNum(Q(1, 5))}
AoiArgs == {0, 60, 100}
AltitudeArgs == {0, 5477}
AlbedoArgs == {Q(0, 1), Q(1, 5), Q(2, 5), Q(1, 1)}

Elements(x) == IF IsArr(x) THEN {x.v[i] : i \in 1..Len(x.v)} ELSE {x}

\* the calls whose every intermediate value the model can represent
Representable(a) ==
  IF \/ NeitherGiven(a.module_type, a.coefficients)
     \/ BothGiven(a.module_type, a.coefficients)
     \/ a.module_type # MtNone /\ LookupFails(a.module_type)
  THEN TRUE
  ELSE LET r == Resolve(a.module_type, a.coefficients, a.albedo)
           ram == RamOf(get_absolute_airmass(get_relative_airmass(a.aoi),
                                             alt2pres(a.altitude)),
                        a.airmass_absolute)
       IN  /\ \A x \in Elements(ram) : PowExact(x, r.coeff.v[4])
           /\ SqrtExact(a.precipitable_water)

VARIABLES
  args,       \* the arguments of the call
  pc,         \* the statement to execute next
  am_aoi, pressure, am90, Ram, coeff, c_albedo, albedo, smm, g,  \* locals
  raised,     \* the exception the call ended with, or "none"
  result,     \* the value returned, or None
  executed    \* the computation steps performed so far

vars == <<args, pc, am_aoi, pressure, am90, Ram, coeff, c_albedo, albedo,
          smm, g, raised, result, executed>>

\* the dictionary lookups moved ahead of the airmass computation
OrderLookupFirst ==
  <<"check", "resolve", "relative_airmass", "alt2pres", "absolute_airmass",
    "ram", "smm", "g", "return">>

\* the order of the statements of the body
Order ==
  <<"check", "relative_airmass", "alt2pres", "absolute_airmass", "ram",
    "resolve", "smm", "g", "return">>

NextPc(p) ==
  LET i == CHOOSE j \in 1..Len(Order) : Order[j] = p
  IN  IF i = Len(Order) THEN "done" ELSE Order[i + 1]

Init ==
  /\ \E pw \in WaterArgs, am \in AirmassArgs, aod \in AodArgs, zen \in AoiArgs,
        alt \in AltitudeArgs, mt \in ModuleTypeArgs, co \in CoefficientArgs,
        alb \in AlbedoArgs :
       /\ args = [precipitable_water |-> pw, airmass_absolute |-> am,
                  aod500 |-> aod, aoi |-> zen, altitude |-> alt,
                  module_type |-> mt, coefficients |-> co, albedo |-> alb]
       /\ Representable(args)
       /\ albedo = alb
  /\ pc = Order[1]
  /\ am_aoi = None /\ pressure = None /\ am90 = None /\ Ram = None
  /\ coeff = None /\ c_albedo = None /\ smm = None /\ g = None
  /\ raised = "none" /\ result = None /\ executed = {}

Raise(e) ==
  /\ raised' = e
  /\ pc' = "done"

\* lines 61-65
CheckArgs ==
  /\ pc = "check"
  /\ \/ NeitherGiven(args.module_type, args.coefficients) /\ Raise("ValueError")
     \/ BothGiven(args.module_type, args.coefficients) /\ Raise("ValueError")
     \/ /\ ~NeitherGiven(args.module_type, args.coefficients)
        /\ ~BothGiven(args.module_type, args.coefficients)
        /\ pc' = NextPc(pc)
        /\ raised' = raised
  /\ UNCHANGED <<args, am_aoi, pressure, am90, Ram, coeff, c_albedo, albedo,
                 smm, g, result, executed>>

\* line 67
RelativeAirmass ==
  /\ pc = "relative_airmass"
  /\ am_aoi' = get_relative_airmass(args.aoi)
  /\ executed' = executed \cup {"relative_airmass"}
  /\ pc' = NextPc(pc)
  /\ UNCHANGED <<args, pressure, am90, Ram, coeff, c_albedo, albedo, smm, g,
                 raised, result>>

\* line 68
PressureFromAltitude ==
  /\ pc = "alt2pres"
  /\ pressure' = alt2pres(args.altitude)
  /\ executed' = executed \cup {"pressure_from_altitude"}
  /\ pc' = NextPc(pc)
  /\ UNCHANGED <<args, am_aoi, am90, Ram, coeff, c_albedo, albedo, smm, g,
                 raised, result>>

\* line 69
AbsoluteAirmass ==
  /\ pc = "absolute_airmass"
  /\ am90' = get_absolute_airmass(am_aoi, pressure)
  /\ executed' = executed \cup {"absolute_airmass"}
  /\ pc' = NextPc(pc)
  /\ UNCHANGED <<args, am_aoi, pressure, Ram, coeff, c_albedo, albedo, smm, g,
                 raised, result>>

\* line 70
RamDivision ==
  /\ pc = "ram"
  /\ Ram' = RamOf(am90, args.airmass_absolute)
  /\ executed' = executed \cup {"ram_division"}
  /\ pc' = NextPc(pc)
  /\ UNCHANGED <<args, am_aoi, pressure, am90, coeff, c_albedo, albedo, smm, g,
                 raised, result>>

\* lines 72-95
ResolveCoefficients ==
  /\ pc = "resolve"
  /\ \/ /\ args.module_type # MtNone /\ LookupFails(args.module_type)
        /\ Raise("KeyError")
        /\ UNCHANGED <<coeff, c_albedo, albedo>>
     \/ /\ ~(args.module_type # MtNone /\ LookupFails(args.module_type))
        /\ LET r == Resolve(args.module_type, args.coefficients, albedo)
           IN  /\ coeff' = r.coeff
               /\ c_albedo' = r.c_albedo
               /\ albedo' = r.albedo
        /\ pc' = NextPc(pc)
        /\ raised' = raised
  /\ UNCHANGED <<args, am_aoi, pressure, am90, Ram, smm, g, result, executed>>

\* line 98
SpectralMismatch ==
  /\ pc = "smm"
  /\ \/ /\ Line98Raises(coeff, args.aod500)
        /\ Raise("ZeroDivisionError")
        /\ smm' = smm
     \/ /\ ~Line98Raises(coeff, args.aod500)
        /\ smm' = SmmOf(coeff, Ram, args.aod500, args.precipitable_water)
        /\ pc' = NextPc(pc)
        /\ raised' = raised
  /\ UNCHANGED <<args, am_aoi, pressure, am90, Ram, coeff, c_albedo, albedo,
                 g, result, executed>>

\* line 101
AlbedoCorrection ==
  /\ pc = "g"
  /\ g' = GOf(c_albedo, albedo)
  /\ pc' = NextPc(pc)
  /\ UNCHANGED <<args, am_aoi, pressure, am90, Ram, coeff, c_albedo, albedo,
                 smm, raised, result, executed>>

\* line 104
Return ==
  /\ pc = "return"
  /\ result' = ReturnOf(g, smm)
  /\ pc' = NextPc(pc)
  /\ UNCHANGED <<args, am_aoi, pressure, am90, Ram, coeff, c_albedo, albedo,
                 smm, g, raised, executed>>

Next ==
  \/ CheckArgs
  \/ RelativeAirmass
  \/ PressureFromAltitude
  \/ AbsoluteAirmass
  \/ RamDivision
  \/ ResolveCoefficients
  \/ SpectralMismatch
  \/ AlbedoCorrection
  \/ Return

Spec == Init /\ [][Next]_vars

(***************************************************************************)
(* Vocabulary of the properties.                                           *)
(***************************************************************************)
Done == pc = "done"
Outcome == [err |-> raised, val |-> result]

\* the call of the current state with some of its arguments replaced
CallWith(am, mt, co, alb) ==
  spectral_factor_polo(args.precipitable_water, am, args.aod500, args.aoi,
                       args.altitude, mt, co, alb)

SameOutcome(o1, o2) ==
  /\ o1.err = o2.err
  /\ o1.err = "none" => Eq(o1.val, o2.val)

ExactlyOneGiven == (args.module_type = MtNone) # (args.coefficients = None)

ByModuleType == args.module_type \in KnownTypes /\ args.coefficients = None
ByCoefficients == args.module_type = MtNone /\ args.coefficients # None

NonFinite(x) ==
  IF IsArr(x) THEN \A i \in 1..Len(x.v) : x.v[i].k \in {"inf", "nan"}
  ELSE x.k \in {"inf", "nan"}

AllFinite(x) ==
  IF IsArr(x) THEN \A i \in 1..Len(x.v) : x.v[i].k = "fin" ELSE x.k = "fin"

Leq(x, y) == ~FinLess(y, x)

AirmassSteps ==
  {"relative_airmass", "pressure_from_altitude", "absolute_airmass",
   "ram_division"}

(***************************************************************************)
(* C1.  Whatever the other arguments, a call that supplies both            *)
(* module_type and coefficients, or neither, ends in ValueError and never  *)
(* returns a value.                                                        *)
(***************************************************************************)
C1_InvalidSelectionRaises ==
  (~ExactlyOneGiven) =>
     /\ result = None
     /\ pc \in {"check", "done"}
     /\ Done => raised = "ValueError"

C1_Witness ==
  /\ Done /\ raised = "ValueError"
  /\ args.module_type # MtNone /\ args.coefficients # None

(***************************************************************************)
(* C2.  With module_type supplied and coefficients None, the call ends in  *)
(* KeyError (a LookupError) without a value exactly when module_type is    *)
(* not one of 'cdte', 'monosi', 'cigs', 'asi'.                             *)
(***************************************************************************)
C2_UnknownTypeKeyError ==
  (Done /\ args.module_type # MtNone /\ args.coefficients = None) =>
     /\ (args.module_type \notin {"cdte", "monosi", "cigs", "asi"})
          <=> (raised = "KeyError")
     /\ raised = "KeyError" => result = None

C2_Witness ==
  /\ Done /\ raised = "KeyError"
  /\ args.module_type = "unknown" /\ args.coefficients = None

(***************************************************************************)
(* C3 (as claimed).  A call that ends in ValueError or KeyError has        *)
(* executed none of relative_airmass, pressure_from_altitude,              *)
(* absolute_airmass and the Ram division.                                  *)
(***************************************************************************)
C3_Original ==
  raised \in {"ValueError", "KeyError"} => executed = {}

(***************************************************************************)
(* C3 (amended).  ValueError is raised before any computation; KeyError is *)
(* raised after the three airmass steps and the Ram division have all been *)
(* executed, and before smm and g are evaluated.                           *)
(***************************************************************************)
C3_ErrorsAndComputation ==
  /\ raised = "ValueError" => executed = {}
  /\ raised = "KeyError" =>
       /\ executed = AirmassSteps
       /\ Ram # None /\ smm = None /\ g = None /\ result = None

C3_Witness ==
  /\ Done /\ raised = "KeyError" /\ executed = AirmassSteps

(***************************************************************************)
(* C4 (as claimed).  A call with a scalar aod500 equal to zero, every      *)
(* other argument valid (non-negative water, positive scalar airmass, an   *)
(* angle up to 90 degrees) and a known module_type or explicit             *)
(* coefficients, raises nothing and returns a non-finite value.            *)
(***************************************************************************)
OtherArgumentsValid ==
  /\ ~args.precipitable_water.neg
  /\ ~IsArr(args.airmass_absolute) /\ ~IsZero(args.airmass_absolute)
  /\ args.aoi <= 90

C4_ZeroAodReturnsNonFinite ==
  (/\ Done /\ IsZero(args.aod500.x) /\ OtherArgumentsValid
   /\ (ByModuleType \/ ByCoefficients)) =>
     /\ raised = "none"
     /\ result # None /\ NonFinite(result)

(***************************************************************************)
(* C5 (as claimed).  For a known module type at albedo = 0.2, g equals the *)
(* third table-B coefficient b2 and the value returned is b2 * smm.        *)
(***************************************************************************)
C5_Original ==
  (Done /\ raised = "none" /\ ByModuleType /\ FinEq(args.albedo, Q(2, 10))) =>
     /\ Eq(g, TableB[args.module_type][3])
     /\ Eq(result, Mul(TableB[args.module_type][3], smm))

(***************************************************************************)
(* C5 (amended).  For a known module type at albedo = 0.2 the ratio        *)
(* albedo/0.2 is 1, so g equals b0 + b1 + b2 and the value returned is     *)
(* (b0 + b1 + b2) * smm.                                                   *)
(***************************************************************************)
C5_GAtReferenceAlbedo ==
  (Done /\ raised = "none" /\ ByModuleType /\ FinEq(args.albedo, Q(2, 10))) =>
     LET b == TableB[args.module_type]
         sum == Add(Add(b[1], b[2]), b[3])
     IN  /\ Eq(g, sum)
         /\ Eq(result, Mul(sum, smm))

C5_Witness ==
  /\ Done /\ raised = "none" /\ args.module_type = "cdte"
  /\ FinEq(args.albedo, Q(2, 10))
  /\ FinEq(g, Q(10021, 10000))
  /\ AllFinite(result)

(***************************************************************************)
(* C6.  With explicit coefficients the outcome does not depend on the      *)
(* albedo the caller supplies, and the value returned is the smm term      *)
(* itself (g = 1).                                                         *)
(***************************************************************************)
C6_AlbedoIgnoredWithCoefficients ==
  (Done /\ ByCoefficients) =>
     /\ \A a \in AlbedoArgs :
          SameOutcome(Outcome,
                      CallWith(args.airmass_absolute, args.module_type,
                               args.coefficients, a))
     /\ raised = "none" => Eq(g, One) /\ Eq(result, smm)

C6_Witness ==
  /\ Done /\ ByCoefficients /\ raised = "none"
  /\ ~FinEq(args.albedo, Q(2, 10))
  /\ AllFinite(result)

(***************************************************************************)
(* C7.  For a known module type T, the call with coefficients set to T's   *)
(* table-A tuple and module_type None returns T's smm term: the            *)
(* module_type call returns g(T's table-B triple, albedo) times it.        *)
(***************************************************************************)
C7_CoefficientsReproduceSmm ==
  (Done /\ ByModuleType) =>
     LET o == CallWith(args.airmass_absolute, MtNone,
                       Tuple(TableA[args.module_type]), args.albedo)
     IN  /\ o.err = raised
         /\ raised = "none" =>
              /\ Eq(o.val, smm)
              /\ Eq(result,
                    Mul(GOf(TableB[args.module_type], args.albedo), o.val))

C7_Witness ==
  /\ Done /\ ByModuleType /\ raised = "none"
  /\ args.module_type = "monosi"
  /\ FinEq(args.albedo, Q(2, 5))
  /\ AllFinite(result)

(***************************************************************************)
(* C8 (as claimed).  For each known module type, g is monotonic in albedo  *)
(* over 0 <= albedo <= 1: non-decreasing everywhere or non-increasing      *)
(* everywhere.                                                             *)
(***************************************************************************)
GAt(t, a) == GOf(TableB[t], a)

NonDecreasing(t) ==
  \A a1, a2 \in AlbedoArgs : Leq(a1, a2) => Leq(GAt(t, a1), GAt(t, a2))

NonIncreasing(t) ==
  \A a1, a2 \in AlbedoArgs : Leq(a1, a2) => Leq(GAt(t, a2), GAt(t, a1))

\* the g of the current state against the g of every other albedo
RisesThroughG ==
  \A a \in AlbedoArgs :
     /\ Leq(a, args.albedo) => Leq(GAt(args.module_type, a), g)
     /\ Leq(args.albedo, a) => Leq(g, GAt(args.module_type, a))

FallsThroughG ==
  \A a \in AlbedoArgs :
     /\ Leq(a, args.albedo) => Leq(g, GAt(args.module_type, a))
     /\ Leq(args.albedo, a) => Leq(GAt(args.module_type, a), g)

C8_Original ==
  (ByModuleType /\ g # None) =>
     \/ NonDecreasing(args.module_type) /\ RisesThroughG
     \/ NonIncreasing(args.module_type) /\ FallsThroughG

(***************************************************************************)
(* C8 (amended).  g is monotonic (non-increasing) in albedo over           *)
(* 0 <= albedo <= 1 for 'cigs' and 'monosi'; for 'asi' and 'cdte' it is    *)
(* not monotonic: it falls from albedo 0 to a minimum inside the range and *)
(* rises again to albedo 1.                                                *)
(***************************************************************************)
C8_MonotonicOnlyForCigsAndMonosi ==
  (ByModuleType /\ g # None) =>
     /\ args.module_type \in {"cigs", "monosi"} =>
          NonIncreasing(args.module_type) /\ FallsThroughG
     /\ args.module_type \in {"asi", "cdte"} =>
          /\ ~NonDecreasing(args.module_type)
          /\ ~NonIncreasing(args.module_type)
          /\ FinEq(args.albedo, Q(2, 5)) =>
               /\ FinLess(g, GAt(args.module_type, Q(0, 1)))
               /\ FinLess(g, GAt(args.module_type, Q(1, 1)))

C8_Witness ==
  /\ Done /\ raised = "none" /\ args.module_type = "asi"
  /\ FinEq(args.albedo, Q(2, 5))
  /\ FinLess(g, GAt("asi", Q(0, 1)))
  /\ FinLess(g, GAt("asi", Q(1, 1)))

(***************************************************************************)
(* C9.  With airmass_absolute an array of length N and every other         *)
(* argument a scalar, the call returns an array of length N whose i-th     *)
(* element is what the scalar call with the i-th airmass returns.          *)
(***************************************************************************)
C9_Vectorized ==
  (Done /\ IsArr(args.airmass_absolute) /\ ExactlyOneGiven) =>
     \A i \in 1..Len(args.airmass_absolute.v) :
        LET o == CallWith(args.airmass_absolute.v[i], args.module_type,
                          args.coefficients, args.albedo)
        IN  /\ o.err = raised
            /\ raised = "none" =>
                 /\ IsArr(result)
                 /\ Len(result.v) = Len(args.airmass_absolute.v)
                 /\ SEq(result.v[i], o.val)

C9_Witness ==
  /\ Done /\ raised = "none" /\ IsArr(args.airmass_absolute)
  /\ Len(args.airmass_absolute.v) = MaxLen
  /\ IsArr(result) /\ Len(result.v) = MaxLen
  /\ result.v[1].k = "fin" /\ result.v[MaxLen].k = "inf"

(***************************************************************************)
(* C10.  A call that returns, returns g * smm with                         *)
(*   Ram = absolute_airmass(relative_airmass(aoi),                         *)
(*                          pressure_from_altitude(altitude))              *)
(*         / airmass_absolute,                                             *)
(*   smm = c0*Ram + c1/(c2 + Ram**c3) + c4/aod500                          *)
(*         + c5*sqrt(precipitable_water),                                  *)
(*   g   = b0*(albedo/0.2)^2 + b1*(albedo/0.2) + b2,                       *)
(* c the table-A row or the caller's coefficients, b and albedo the        *)
(* resolved table-B triple and albedo.                                     *)
(***************************************************************************)
C10_ReturnsGTimesSmm ==
  (Done /\ raised = "none") =>
     LET byType == args.module_type # MtNone
         c == IF byType THEN TableA[args.module_type] ELSE args.coefficients.v
         b == IF byType THEN TableB[args.module_type]
              ELSE <<Q(0, 1), Q(0, 1), Q(1, 1)>>
         al == IF byType THEN args.albedo ELSE Q(2, 10)
         ram == Div(get_absolute_airmass(get_relative_airmass(args.aoi),
                                         alt2pres(args.altitude)),
                    args.airmass_absolute)
         t1 == Mul(c[1], ram)
         t2 == Div(c[2], Add(c[3], Pow(ram, c[4])))
         t3 == Div(c[5], args.aod500.x)
         t4 == Mul(c[6], Sqrt(args.precipitable_water))
         s == Add(Add(Add(t1, t2), t3), t4)
         r == Div(al, Q(2, 10))
         gg == Add(Add(Mul(b[1], Mul(r, r)), Mul(b[2], r)), b[3])
     IN  /\ Eq(Ram, ram) /\ Eq(smm, s) /\ Eq(g, gg)
         /\ Eq(result, Mul(gg, s))

C10_Witness ==
  /\ Done /\ raised = "none" /\ args.module_type = MtNone
  /\ args.coefficients.k = "ndarray"
  /\ ~IsArr(Ram) /\ FinEq(Ram, Q(2, 1))
  /\ AllFinite(result)

====
